---------------------------- MODULE Spec2Model ----------------------------
(***************************************************************************)
(* A model of the vot toolkit command line (src/vot/__main__.py) and of    *)
(* the report shaping functions (src/vot/analysis/document.py).            *)
(*                                                                         *)
(* Six specifications share the variables:                                 *)
(*   SpecMain      main: dispatch to do_test, do_workspace, do_evaluate,   *)
(*                 do_pack, or the help text                               *)
(*   SpecEvaluate  do_evaluate, the (tracker, experiment, sequence) loops  *)
(*   SpecPack      do_pack, scan of the matrix and the archive             *)
(*   SpecTable     extract_measures_table applied to bounded inputs        *)
(*   SpecMerge     merge_repeats applied to bounded inputs                 *)
(*   SpecDocument  generate_json_document and generate_latex_document      *)
(*                                                                         *)
(* Python text (str) is modelled as a sequence of one-character strings,   *)
(* so that os.path.join can be computed.  A Python exception leaving a     *)
(* function is modelled as a result record [raised |-> <its type>].        *)
(***************************************************************************)
EXTENDS Naturals, Sequences, FiniteSets

VARIABLES
    pc,          \* position of the running command or function
    request,     \* the tracker identifiers given on the command line
    stack,       \* workspace.stack: the experiments, in order
    dataset,     \* workspace.dataset: the sequences, in order
    trackers,    \* do_evaluate: the resolved trackers; do_pack: <<tracker>>
    t_i,         \* for tracker in trackers: trackers taken so far
    e_i,         \* for experiment in workspace.stack: experiments taken
    s_i,         \* for sequence in workspace.dataset: sequences taken
    handle,      \* the last workspace.results(...) value, or NoHandle
    calls,       \* experiment.execute / experiment.scan calls, in order
    outcomes,    \* do_evaluate: how each execute call ended, in order
    all_files,   \* do_pack: all_files
    can_finish,  \* do_pack: can_finish
    f_i,         \* do_pack: for f in all_files: files taken so far
    archive,     \* the archive file on disk: NoArchive or its entries
    objects,     \* merge_repeats: the argument
    repeats,     \* merge_repeats: the returned value
    results,     \* extract_measures_table: the argument
    table,       \* extract_measures_table: the returned value
    action,      \* main: args.action, the subcommand parsed
    handler,     \* main: the function main called
    length,      \* do_test: sequence.length of the dummy sequence
    frame_i,     \* do_test: i of "for i in range(...)"
    runtime_calls, \* do_test: runtime.initialize / runtime.update calls
    ws,          \* do_workspace: the stack resolved and what was done
    repo_ops,    \* operations performed on result bundles, in order
    document     \* generate_json_document / generate_latex_document result

vars == <<pc, request, stack, dataset, trackers, t_i, e_i, s_i, handle, calls,
          outcomes, all_files, can_finish, f_i, archive, objects, repeats,
          results, table, action, handler, length, frame_i, runtime_calls,
          ws, repo_ops, document>>

(* The variables of main, do_test, do_workspace and the document sinks. *)
mainVars == <<action, handler, length, frame_i, runtime_calls, ws, document>>

---------------------------------------------------------------------------
(* Bounds of the model. *)

MaxRequest == 2      \* tracker identifiers on the command line
MaxStack == 2        \* experiments in the stack
MaxDataset == 2      \* sequences in the dataset
MaxFiles == 2        \* result files listed by one scan
MaxLen == 4          \* length of the argument of merge_repeats
MaxPackUnits == 4    \* (experiment, sequence) units of one do_pack run
MaxOutputs == 2      \* output positions of one analysis (length of describe())
MaxTableRows == 2    \* experiments in the argument of extract_measures_table
MaxFrames == 4       \* frames of the dummy sequence of do_test
MaxObjects == 2      \* objects in a list given to generate_json_document

---------------------------------------------------------------------------
(* Helpers on sequences. *)

SeqsUpTo(S, n) == UNION {[1..k -> S] : k \in 0..n}

NoRepeat(s) == \A i, j \in DOMAIN s : i # j => s[i] # s[j]

Digits == <<"1", "2", "3", "4", "5", "6">>

---------------------------------------------------------------------------
(* merge_repeats, src/vot/analysis/document.py 64-83.                      *)

(* MergeStep with "count = count + 1" lost: a repeated element is not      *)
(* counted.                                                                *)
MergeStep_CountLost(st, o) ==
    IF o = st.previous
    THEN st
    ELSE [repeats  |-> Append(st.repeats, <<st.previous, st.count>>),
          previous |-> o,
          count    |-> 1]

(* MergeStep with the comparison lost: every element closes the group.     *)
MergeStep_NeverEqual(st, o) ==
    [repeats  |-> Append(st.repeats, <<st.previous, st.count>>),
     previous |-> o,
     count    |-> 1]

(* One turn of "for o in objects[1:]": st holds repeats, previous, count.  *)
MergeStep(st, o) ==
    IF o = st.previous
    THEN [st EXCEPT !.count = st.count + 1]
    ELSE [repeats  |-> Append(st.repeats, <<st.previous, st.count>>),
          previous |-> o,
          count    |-> 1]

RECURSIVE MergeLoop(_, _)
MergeLoop(st, rest) ==
    IF rest = <<>> THEN st
    ELSE MergeLoop(MergeStep(st, Head(rest)), Tail(rest))

merge_repeats(objs) ==
    IF objs = <<>> THEN <<>>
    ELSE LET st == MergeLoop([repeats |-> <<>>, previous |-> objs[1], count |-> 1],
                             Tail(objs))
         IN  Append(st.repeats, <<st.previous, st.count>>)

Cells == {"A", "B", "C"}

NoValue == "none"

(* No archive file on disk. *)
NoArchive == [exists |-> FALSE, entries |-> <<>>]

(* do_workspace not run: nothing resolved, initialised or downloaded. *)
NoWorkspace == [resolved |-> FALSE, has_dataset |-> FALSE,
                initialized |-> FALSE, downloaded |-> FALSE]

(* The variables of main, do_test, do_workspace and the sinks, unused. *)
MainIdle ==
    /\ action = NoValue /\ handler = NoValue
    /\ length = 0 /\ frame_i = 0 /\ runtime_calls = <<>>
    /\ ws = NoWorkspace /\ repo_ops = <<>> /\ document = NoValue

MergeInit ==
    /\ MainIdle
    /\ pc = "mr_call"
    /\ objects \in SeqsUpTo(Cells, MaxLen)
    /\ repeats = NoValue
    /\ request = <<>> /\ stack = <<>> /\ dataset = <<>> /\ trackers = <<>>
    /\ t_i = 0 /\ e_i = 0 /\ s_i = 0 /\ handle = NoValue
    /\ calls = <<>> /\ outcomes = <<>> /\ all_files = <<>>
    /\ can_finish = TRUE /\ f_i = 0 /\ archive = NoArchive
    /\ results = <<>> /\ table = NoValue

MergeCall ==
    /\ pc = "mr_call"
    /\ repeats' = merge_repeats(objects)
    /\ pc' = "mr_returned"
    /\ UNCHANGED <<mainVars, repo_ops>>
    /\ UNCHANGED <<request, stack, dataset, trackers, t_i, e_i, s_i, handle,
                   calls, outcomes, all_files, can_finish, f_i, archive,
                   objects, results, table>>

MergeNext == MergeCall

SpecMerge == MergeInit /\ [][MergeNext]_vars

(* The pairs written out: each value repeated count times, in order. *)
RECURSIVE Expand(_)
Expand(pairs) ==
    IF pairs = <<>> THEN <<>>
    ELSE [i \in 1..pairs[1][2] |-> pairs[1][1]] \o Expand(Tail(pairs))

RECURSIVE SumCounts(_)
SumCounts(pairs) ==
    IF pairs = <<>> THEN 0 ELSE pairs[1][2] + SumCounts(Tail(pairs))

(* The positions of objs that start a run, in increasing order. *)
RunStarts(objs) ==
    SelectSeq([i \in 1..Len(objs) |-> i],
              LAMBDA i : i = 1 \/ objs[i] # objs[i - 1])

(* C6: merge_repeats is a lossless run-length encoding: the returned pairs *)
(* written out (value repeated count times, in output order) are the input *)
(* exactly, every count is at least 1 and the counts sum to the input's    *)
(* length.                                                                 *)
C6_Lossless ==
    pc = "mr_returned" =>
        /\ Expand(repeats) = objects
        /\ \A k \in DOMAIN repeats : repeats[k][2] >= 1
        /\ SumCounts(repeats) = Len(objects)

C6_Witness ==
    /\ pc = "mr_returned"
    /\ Len(repeats) >= 2
    /\ \E k \in DOMAIN repeats : repeats[k][2] >= 2

(* C7: merge_repeats merges adjacent equal elements only: two adjacent     *)
(* output pairs never have equal values, the groups are the runs of the    *)
(* input in order (the k-th group carries the first element of the k-th    *)
(* run, so a value that reappears after another starts a new group),       *)
(* [A,A,B,A] gives [(A,2),(B,1),(A,1)] and the empty input gives the empty *)
(* output.                                                                 *)
C7_AdjacentRunsOnly ==
    pc = "mr_returned" =>
        /\ \A k \in 1..(Len(repeats) - 1) : repeats[k][1] # repeats[k + 1][1]
        /\ Len(repeats) = Len(RunStarts(objects))
        /\ \A k \in DOMAIN repeats : repeats[k][1] = objects[RunStarts(objects)[k]]
        /\ (objects = <<"A", "A", "B", "A">>
               => repeats = << <<"A", 2>>, <<"B", 1>>, <<"A", 1>> >>)
        /\ (objects = <<>> => repeats = <<>>)

C7_Witness ==
    /\ pc = "mr_returned"
    /\ objects = <<"A", "A", "B", "A">>
    /\ Len(repeats) = 3

---------------------------------------------------------------------------
(* The workspace and the registry: what do_evaluate and do_pack load.      *)

(* load_trackers(...): the registered tracker identifiers. *)
Registry == {"T1", "T2"}

(* What the command line may name: registered identifiers and one other. *)
RequestIds == Registry \cup {"T0"}

ExperimentIds == {<<"e", Digits[i]>> : i \in 1..MaxStack}

SequenceNames == {<<"s", Digits[i]>> : i \in 1..MaxDataset}

(* workspace.stack and workspace.dataset: ordered, without repetition. *)
Stacks == {st \in SeqsUpTo(ExperimentIds, MaxStack) : NoRepeat(st)}

Datasets == {ds \in SeqsUpTo(SequenceNames, MaxDataset) : NoRepeat(ds)}

(* workspace.results(tracker, experiment, sequence): the bundle handle of  *)
(* the unit.                                                               *)
WorkspaceResults(tracker, experiment, sequence) ==
    [tracker |-> tracker, experiment |-> experiment, sequence |-> sequence]

(* The matrix cell the loops are at: positions in trackers, stack, dataset. *)
Cell == <<t_i, e_i, s_i>>

PureIdle ==
    /\ objects = <<>> /\ repeats = NoValue
    /\ results = <<>> /\ table = NoValue

---------------------------------------------------------------------------
(* do_evaluate, src/vot/__main__.py 80-106.                                *)

EvInit ==
    /\ MainIdle
    /\ pc = "ev_lookup"
    /\ request \in SeqsUpTo(RequestIds, MaxRequest) \ {<<>>}
    /\ stack \in Stacks
    /\ dataset \in Datasets
    /\ trackers = <<>>
    /\ t_i = 0 /\ e_i = 0 /\ s_i = 0 /\ handle = NoValue
    /\ calls = <<>> /\ outcomes = <<>>
    /\ all_files = <<>> /\ can_finish = TRUE /\ f_i = 0 /\ archive = NoArchive
    /\ PureIdle

(* The lookup with only the first requested identifier checked. *)
EvLookup_FirstOnly ==
    /\ pc = "ev_lookup"
    /\ IF request[1] \in Registry
       THEN /\ trackers' = request
            /\ pc' = "ev_tracker"
       ELSE /\ trackers' = trackers
            /\ pc' = "ev_notfound"
    /\ UNCHANGED <<mainVars, repo_ops>>
    /\ UNCHANGED <<request, stack, dataset, t_i, e_i, s_i, handle, calls,
                   outcomes, all_files, can_finish, f_i, archive, objects,
                   repeats, results, table>>

(* 92-96: trackers = [registry[t.strip()] for t in ...]; KeyError returns. *)
EvLookup ==
    /\ pc = "ev_lookup"
    /\ IF \A k \in DOMAIN request : request[k] \in Registry
       THEN /\ trackers' = request
            /\ pc' = "ev_tracker"
       ELSE /\ trackers' = trackers
            /\ pc' = "ev_notfound"
    /\ UNCHANGED <<mainVars, repo_ops>>
    /\ UNCHANGED <<request, stack, dataset, t_i, e_i, s_i, handle, calls,
                   outcomes, all_files, can_finish, f_i, archive, objects,
                   repeats, results, table>>

(* 98: for tracker in trackers; 106 when the list is exhausted. *)
EvTracker ==
    /\ pc = "ev_tracker"
    /\ IF t_i < Len(trackers)
       THEN /\ t_i' = t_i + 1
            /\ e_i' = 0
            /\ s_i' = 0
            /\ pc' = "ev_experiment"
       ELSE /\ UNCHANGED <<t_i, e_i, s_i>>
            /\ pc' = "ev_done"
    /\ UNCHANGED <<mainVars, repo_ops>>
    /\ UNCHANGED <<request, stack, dataset, trackers, handle, calls, outcomes,
                   all_files, can_finish, f_i, archive, objects, repeats,
                   results, table>>

(* 100: for experiment in workspace.stack. *)
EvExperiment ==
    /\ pc = "ev_experiment"
    /\ IF e_i < Len(stack)
       THEN /\ e_i' = e_i + 1
            /\ s_i' = 0
            /\ pc' = "ev_sequence"
       ELSE /\ UNCHANGED <<e_i, s_i>>
            /\ pc' = "ev_tracker"
    /\ UNCHANGED <<mainVars, repo_ops>>
    /\ UNCHANGED <<request, stack, dataset, trackers, t_i, handle, calls,
                   outcomes, all_files, can_finish, f_i, archive, objects,
                   repeats, results, table>>

(* EvSequence that stops one sequence early (range(len - 1)). *)
EvSequence_OneShort ==
    /\ pc = "ev_sequence"
    /\ IF s_i + 1 < Len(dataset)
       THEN /\ s_i' = s_i + 1
            /\ pc' = "ev_results"
       ELSE /\ s_i' = s_i
            /\ pc' = "ev_experiment"
    /\ UNCHANGED <<mainVars, repo_ops>>
    /\ UNCHANGED <<request, stack, dataset, trackers, t_i, e_i, handle, calls,
                   outcomes, all_files, can_finish, f_i, archive, objects,
                   repeats, results, table>>

(* 102: for sequence in workspace.dataset. *)
EvSequence ==
    /\ pc = "ev_sequence"
    /\ IF s_i < Len(dataset)
       THEN /\ s_i' = s_i + 1
            /\ pc' = "ev_results"
       ELSE /\ s_i' = s_i
            /\ pc' = "ev_experiment"
    /\ UNCHANGED <<mainVars, repo_ops>>
    /\ UNCHANGED <<request, stack, dataset, trackers, t_i, e_i, handle, calls,
                   outcomes, all_files, can_finish, f_i, archive, objects,
                   repeats, results, table>>

(* EvResults with the handle taken once per experiment, for its first      *)
(* sequence, and reused for the others.                                    *)
EvResults_Hoisted ==
    /\ pc = "ev_results"
    /\ handle' = WorkspaceResults(trackers[t_i], stack[e_i], dataset[1])
    /\ pc' = "ev_execute"
    /\ UNCHANGED <<mainVars, repo_ops>>
    /\ UNCHANGED <<request, stack, dataset, trackers, t_i, e_i, s_i, calls,
                   outcomes, all_files, can_finish, f_i, archive, objects,
                   repeats, results, table>>

(* 104: the argument workspace.results(tracker, experiment, sequence) is   *)
(* evaluated before experiment.execute is entered.                         *)
EvResults ==
    /\ pc = "ev_results"
    /\ handle' = WorkspaceResults(trackers[t_i], stack[e_i], dataset[s_i])
    /\ pc' = "ev_execute"
    /\ UNCHANGED <<mainVars, repo_ops>>
    /\ UNCHANGED <<request, stack, dataset, trackers, t_i, e_i, s_i, calls,
                   outcomes, all_files, can_finish, f_i, archive, objects,
                   repeats, results, table>>

(* 104: experiment.execute(tracker, sequence, <handle>) is entered. *)
EvExecuteCall ==
    /\ pc = "ev_execute"
    /\ calls' = Append(calls, [cell       |-> Cell,
                               tracker    |-> trackers[t_i],
                               experiment |-> stack[e_i],
                               sequence   |-> dataset[s_i],
                               results    |-> handle])
    /\ repo_ops' = Append(repo_ops, [op |-> "execute", bundle |-> handle])
    /\ pc' = "ev_running"
    /\ UNCHANGED mainVars
    /\ UNCHANGED <<request, stack, dataset, trackers, t_i, e_i, s_i, handle,
                   outcomes, all_files, can_finish, f_i, archive, objects,
                   repeats, results, table>>

(* 104: execute returns; the loop goes on with the next sequence. *)
EvExecuteReturn ==
    /\ pc = "ev_running"
    /\ outcomes' = Append(outcomes, "returned")
    /\ pc' = "ev_sequence"
    /\ UNCHANGED <<mainVars, repo_ops>>
    /\ UNCHANGED <<request, stack, dataset, trackers, t_i, e_i, s_i, handle,
                   calls, all_files, can_finish, f_i, archive, objects,
                   repeats, results, table>>

(* 104: execute raises.  No try statement encloses the call (98-104), so   *)
(* the exception leaves the three loops and do_evaluate.                   *)
EvExecuteRaise ==
    /\ pc = "ev_running"
    /\ outcomes' = Append(outcomes, "raised")
    /\ pc' = "ev_raised"
    /\ UNCHANGED <<mainVars, repo_ops>>
    /\ UNCHANGED <<request, stack, dataset, trackers, t_i, e_i, s_i, handle,
                   calls, all_files, can_finish, f_i, archive, objects,
                   repeats, results, table>>

EvNext ==
    \/ EvLookup
    \/ EvTracker
    \/ EvExperiment
    \/ EvSequence
    \/ EvResults
    \/ EvExecuteCall
    \/ EvExecuteReturn
    \/ EvExecuteRaise

SpecEvaluate == EvInit /\ [][EvNext]_vars

(* do_evaluate has ended: returned (106 or 96) or left by an exception. *)
EvEnded == pc \in {"ev_done", "ev_notfound", "ev_raised"}

(* The cells of the matrix of this run. *)
MatrixCells == (1..Len(trackers)) \X (1..Len(stack)) \X (1..Len(dataset))

(* Loop order: tracker, then experiment, then sequence. *)
CellBefore(c, d) ==
    \/ c[1] < d[1]
    \/ c[1] = d[1] /\ c[2] < d[2]
    \/ c[1] = d[1] /\ c[2] = d[2] /\ c[3] < d[3]

Attempted(c) == \E k \in DOMAIN calls : calls[k].cell = c

(* The state of a unit, read from where the loops are: the unit the loops  *)
(* are at is RUNNING while execute is entered and FAILED once execute has  *)
(* raised; a unit the loops have gone past is DONE; any other is PENDING.  *)
UnitState(c) ==
    IF c = Cell /\ pc \in {"ev_results", "ev_execute"} THEN "PENDING"
    ELSE IF c = Cell /\ pc = "ev_running" THEN "RUNNING"
    ELSE IF c = Cell /\ pc = "ev_raised" THEN "FAILED"
    ELSE IF c = Cell \/ CellBefore(c, Cell) \/ pc = "ev_done" THEN "DONE"
    ELSE "PENDING"

(* C1: a unit whose execute raises becomes FAILED and the run still goes   *)
(* on: when do_evaluate has ended after the lookup, every unit of the      *)
(* matrix was attempted.                                                   *)
C1_FailureDoesNotAbort ==
    pc \in {"ev_done", "ev_raised"} => \A c \in MatrixCells : Attempted(c)

(* C8: the execute calls follow the matrix in loop order (trackers as      *)
(* named on the command line, experiments in stack order, sequences in     *)
(* dataset order), each call is made for the tracker, experiment and       *)
(* sequence of its cell, no cell is executed twice, and a run in which no  *)
(* execute raised has executed every cell exactly once.                    *)
C8_MatrixOrder ==
    /\ pc \notin {"ev_lookup", "ev_notfound"} => trackers = request
    /\ \A k \in DOMAIN calls :
          /\ calls[k].cell \in MatrixCells
          /\ calls[k].tracker = request[calls[k].cell[1]]
          /\ calls[k].experiment = stack[calls[k].cell[2]]
          /\ calls[k].sequence = dataset[calls[k].cell[3]]
    /\ \A j, k \in DOMAIN calls : j < k => CellBefore(calls[j].cell, calls[k].cell)
    /\ pc = "ev_done" =>
          /\ \A c \in MatrixCells : Attempted(c)
          /\ Len(calls) = Len(request) * Len(stack) * Len(dataset)
          /\ \A k \in DOMAIN outcomes : outcomes[k] = "returned"

C8_Witness ==
    /\ pc = "ev_done"
    /\ Len(request) = 2 /\ Len(stack) = 2 /\ Len(dataset) = 2
    /\ Len(calls) = 8

Rank(u) == CASE u = "PENDING" -> 0 [] u = "RUNNING" -> 1 [] OTHER -> 2

(* What C9 says of one state. *)
C9_State ==
    \A c \in MatrixCells :
        /\ UnitState(c) = "RUNNING" =>
              /\ handle = WorkspaceResults(request[c[1]], stack[c[2]], dataset[c[3]])
              /\ calls[Len(calls)].cell = c
              /\ calls[Len(calls)].results = handle
        /\ UnitState(c) = "DONE" =>
              \E k \in DOMAIN outcomes :
                  calls[k].cell = c /\ outcomes[k] = "returned"

(* What C9 says of one step: a unit moves only from PENDING to RUNNING and *)
(* from RUNNING to DONE or FAILED.                                         *)
C9_Step ==
    \A c \in MatrixCells :
        \/ UnitState(c)' = UnitState(c)
        \/ UnitState(c) = "PENDING" /\ UnitState(c)' = "RUNNING"
        \/ UnitState(c) = "RUNNING" /\ UnitState(c)' \in {"DONE", "FAILED"}

(* C9: each unit goes PENDING, RUNNING, then DONE or FAILED, and never     *)
(* back; a unit is RUNNING only with its own bundle handle obtained from   *)
(* workspace.results, and DONE only if its execute call returned.          *)
C9_UnitLifecycle == []C9_State /\ [][C9_Step]_vars

C9_Witness ==
    /\ Len(request) = 2 /\ Len(stack) = 2 /\ Len(dataset) = 2
    /\ UnitState(<<1, 1, 1>>) = "DONE"
    /\ UnitState(<<1, 2, 1>>) = "FAILED"
    /\ UnitState(<<2, 1, 1>>) = "PENDING"

---------------------------------------------------------------------------
(* do_pack, src/vot/__main__.py 112-161.                                   *)

(* Python values that reach os.path.join: a str or a tuple. *)
PyStr(chars) == [type |-> "str", val |-> chars]

PyTuple(items) == [type |-> "tuple", val |-> items]

Returned(v) == [raised |-> "no", value |-> v]

Raised(exception) == [raised |-> exception]

(* posixpath.join on two str: b replaces a when b is absolute, else b is   *)
(* added after a separator unless a is empty or already ends with one.     *)
JoinTwo(a, b) ==
    IF b # <<>> /\ b[1] = "/" THEN b
    ELSE IF a = <<>> \/ a[Len(a)] = "/" THEN a \o b
    ELSE a \o <<"/">> \o b

RECURSIVE JoinFrom(_, _, _)
JoinFrom(path, args, k) ==
    IF k > Len(args) THEN path
    ELSE JoinFrom(JoinTwo(path, args[k].val), args, k + 1)

(* os.path.join: TypeError unless every argument is a str. *)
os_path_join(args) ==
    IF \E k \in DOMAIN args : args[k].type # "str"
    THEN Raised("TypeError")
    ELSE Returned(JoinFrom(args[1].val, args, 2))

(* ZipFile.open(name, mode) on an archive opened with 'w': mode "r" looks  *)
(* the member up (KeyError when there is none) and gives a reader; mode    *)
(* "w" gives a writer for a new member.                                    *)
ZipFile_open(zip, name, mode) ==
    IF mode = "w" THEN Returned([writable |-> TRUE, name |-> name])
    ELSE IF \E k \in DOMAIN zip.entries : zip.entries[k].path = name
         THEN Returned([writable |-> FALSE, name |-> name])
         ELSE Raised("KeyError")

(* results.read(f): the byte stream of file f of the unit's bundle. *)
BundleRead(bundle, f) == [bundle |-> bundle, file |-> f]

(* copyfileobj(fin, fout): fout.write fails on a reader. *)
copyfileobj(zip, fin, fout) ==
    IF fout.writable
    THEN Returned([zip EXCEPT !.entries =
                       Append(@, [path |-> fout.name, content |-> fin])])
    ELSE Raised("UnsupportedOperation")

(* 158-159: one file of all_files goes into the archive. *)
CopyOne(zip, f) ==
    LET path == os_path_join(<<PyStr(f[2]), PyStr(f[3]), PyTuple(f)>>)
    IN  IF path.raised # "no" THEN path
        ELSE LET fout == ZipFile_open(zip, path.value, "r")
             IN  IF fout.raised # "no" THEN fout
                 ELSE copyfileobj(zip, BundleRead(f[4], f[1]), fout.value)

FileIds == {<<"f", Digits[i]>> : i \in 1..MaxFiles}

(* The file lists a scan may give. *)
FileLists == {[i \in 1..n |-> <<"f", Digits[i]>>] : n \in 0..MaxFiles}

(* A matrix with path separators in its identifiers: the units            *)
(* (e1, s1/s2) and (e1/s1, s2) share the directory e1/s1/s2.               *)
MalformedStack == << <<"e", "1">>, <<"e", "1", "/", "s", "1">> >>

MalformedDataset == << <<"s", "1", "/", "s", "2">>, <<"s", "2">> >>

(* 142 with experiment.execute called in place of experiment.scan. *)
ScanOp_Execute(bundle) == [op |-> "execute", bundle |-> bundle]

(* 142: experiment.scan(tracker, sequence, results) reads the bundle. *)
ScanOp(bundle) == [op |-> "scan", bundle |-> bundle]

(* 144-146 with the flag set from the last unit alone. *)
CanFinishAfter_LastUnit(flag, complete) == complete

(* 144-146: if not complete: can_finish = False. *)
CanFinishAfter(flag, complete) == IF ~complete THEN FALSE ELSE flag

PkInit ==
    /\ MainIdle
    /\ pc = "pk_lookup"
    /\ request \in {<<id>> : id \in RequestIds}
    /\ \/ stack \in Stacks /\ dataset \in Datasets
       \/ stack = MalformedStack /\ dataset = MalformedDataset
    /\ Len(stack) * Len(dataset) <= MaxPackUnits
    /\ trackers = <<>>
    /\ t_i = 0 /\ e_i = 0 /\ s_i = 0 /\ handle = NoValue
    /\ calls = <<>> /\ outcomes = <<>>
    /\ all_files = <<>> /\ can_finish = TRUE /\ f_i = 0 /\ archive = NoArchive
    /\ PureIdle

(* 127-131: tracker = registry[config.tracker]; KeyError returns;          *)
(* 135-136: all_files = [], can_finish = True.                             *)
PkLookup ==
    /\ pc = "pk_lookup"
    /\ IF request[1] \in Registry
       THEN /\ trackers' = request
            /\ t_i' = 1
            /\ pc' = "pk_experiment"
       ELSE /\ UNCHANGED <<trackers, t_i>>
            /\ pc' = "pk_notfound"
    /\ all_files' = <<>>
    /\ can_finish' = TRUE
    /\ UNCHANGED <<mainVars, repo_ops>>
    /\ UNCHANGED <<request, stack, dataset, e_i, s_i, handle, calls, outcomes,
                   f_i, archive, objects, repeats, results, table>>

(* 138: for experiment in workspace.stack; 148 when exhausted. *)
PkExperiment ==
    /\ pc = "pk_experiment"
    /\ IF e_i < Len(stack)
       THEN /\ e_i' = e_i + 1
            /\ s_i' = 0
            /\ pc' = "pk_sequence"
       ELSE /\ UNCHANGED <<e_i, s_i>>
            /\ pc' = "pk_decide"
    /\ UNCHANGED <<mainVars, repo_ops>>
    /\ UNCHANGED <<request, stack, dataset, trackers, t_i, handle, calls,
                   outcomes, all_files, can_finish, f_i, archive, objects,
                   repeats, results, table>>

(* 140: for sequence in workspace.dataset. *)
PkSequence ==
    /\ pc = "pk_sequence"
    /\ IF s_i < Len(dataset)
       THEN /\ s_i' = s_i + 1
            /\ pc' = "pk_scan"
       ELSE /\ s_i' = s_i
            /\ pc' = "pk_experiment"
    /\ UNCHANGED <<mainVars, repo_ops>>
    /\ UNCHANGED <<request, stack, dataset, trackers, t_i, e_i, handle, calls,
                   outcomes, all_files, can_finish, f_i, archive, objects,
                   repeats, results, table>>

(* PkScan that leaves the loops at the first incomplete unit. *)
PkScan_StopAtGap ==
    /\ pc = "pk_scan"
    /\ \E complete \in BOOLEAN, files \in FileLists :
          LET bundle == WorkspaceResults(trackers[1], stack[e_i], dataset[s_i])
          IN  /\ handle' = bundle
              /\ calls' = Append(calls, [cell       |-> Cell,
                                         tracker    |-> trackers[1],
                                         experiment |-> stack[e_i],
                                         sequence   |-> dataset[s_i],
                                         results    |-> bundle,
                                         complete   |-> complete,
                                         files      |-> files])
              /\ all_files' = all_files \o
                     [k \in 1..Len(files) |->
                         <<files[k], stack[e_i], dataset[s_i], bundle>>]
              /\ can_finish' = CanFinishAfter(can_finish, complete)
              /\ repo_ops' = Append(repo_ops, ScanOp(bundle))
              /\ pc' = IF complete THEN "pk_sequence" ELSE "pk_decide"
    /\ UNCHANGED mainVars
    /\ UNCHANGED <<request, stack, dataset, trackers, t_i, e_i, s_i, outcomes,
                   f_i, archive, objects, repeats, results, table>>

(* 141-146: results = workspace.results(...); experiment.scan(...) gives   *)
(* (complete, files); the files join all_files; an incomplete unit clears  *)
(* can_finish and the loop goes on.                                        *)
PkScan ==
    /\ pc = "pk_scan"
    /\ \E complete \in BOOLEAN, files \in FileLists :
          LET bundle == WorkspaceResults(trackers[1], stack[e_i], dataset[s_i])
          IN  /\ handle' = bundle
              /\ calls' = Append(calls, [cell       |-> Cell,
                                         tracker    |-> trackers[1],
                                         experiment |-> stack[e_i],
                                         sequence   |-> dataset[s_i],
                                         results    |-> bundle,
                                         complete   |-> complete,
                                         files      |-> files])
              /\ all_files' = all_files \o
                     [k \in 1..Len(files) |->
                         <<files[k], stack[e_i], dataset[s_i], bundle>>]
              /\ can_finish' = CanFinishAfter(can_finish, complete)
              /\ repo_ops' = Append(repo_ops, ScanOp(bundle))
              /\ pc' = "pk_sequence"
    /\ UNCHANGED mainVars
    /\ UNCHANGED <<request, stack, dataset, trackers, t_i, e_i, s_i, outcomes,
                   f_i, archive, objects, repeats, results, table>>

(* 148-154: return when not can_finish, else go on to the archive. *)
PkDecide ==
    /\ pc = "pk_decide"
    /\ pc' = IF ~can_finish THEN "pk_aborted" ELSE "pk_open"
    /\ UNCHANGED <<mainVars, repo_ops>>
    /\ UNCHANGED <<request, stack, dataset, trackers, t_i, e_i, s_i, handle,
                   calls, outcomes, all_files, can_finish, f_i, archive,
                   objects, repeats, results, table>>

(* 156: zipfile.ZipFile(archive_name, 'w') creates the file on disk. *)
PkOpen ==
    /\ pc = "pk_open"
    /\ archive' = [exists |-> TRUE, entries |-> <<>>]
    /\ f_i' = 0
    /\ pc' = "pk_copy"
    /\ UNCHANGED <<mainVars, repo_ops>>
    /\ UNCHANGED <<request, stack, dataset, trackers, t_i, e_i, s_i, handle,
                   calls, outcomes, all_files, can_finish, objects, repeats,
                   results, table>>

(* 158: f[3].read(f[0]) is reached when the path was joined and the entry  *)
(* opened.                                                                 *)
ReadReached(zip, f) ==
    LET path == os_path_join(<<PyStr(f[2]), PyStr(f[3]), PyTuple(f)>>)
    IN  /\ path.raised = "no"
        /\ ZipFile_open(zip, path.value, "r").raised = "no"

(* 157-161: for f in all_files: copy f.  An exception leaves the with      *)
(* statement, which closes the archive, and then do_pack; the file stays   *)
(* on disk.  161 when all_files is exhausted.                              *)
PkCopy ==
    /\ pc = "pk_copy"
    /\ repo_ops' = IF f_i < Len(all_files) /\ ReadReached(archive, all_files[f_i + 1])
                   THEN Append(repo_ops, [op     |-> "read",
                                          bundle |-> all_files[f_i + 1][4]])
                   ELSE repo_ops
    /\ IF f_i < Len(all_files)
       THEN LET done == CopyOne(archive, all_files[f_i + 1])
            IN  IF done.raised # "no"
                THEN /\ outcomes' = Append(outcomes, done.raised)
                     /\ pc' = "pk_raised"
                     /\ UNCHANGED <<archive, f_i>>
                ELSE /\ archive' = done.value
                     /\ f_i' = f_i + 1
                     /\ pc' = "pk_copy"
                     /\ outcomes' = outcomes
       ELSE /\ pc' = "pk_done"
            /\ UNCHANGED <<archive, f_i, outcomes>>
    /\ UNCHANGED mainVars
    /\ UNCHANGED <<request, stack, dataset, trackers, t_i, e_i, s_i, handle,
                   calls, all_files, can_finish, objects, repeats, results,
                   table>>

PkNext ==
    \/ PkLookup
    \/ PkExperiment
    \/ PkSequence
    \/ PkScan
    \/ PkDecide
    \/ PkOpen
    \/ PkCopy

SpecPack == PkInit /\ [][PkNext]_vars

(* do_pack has ended: returned (131, 150 or 161) or left by an exception. *)
PkEnded == pc \in {"pk_done", "pk_notfound", "pk_aborted", "pk_raised"}

(* do_pack is past the decision of 148 and on the archive's side of it. *)
PkPastGate == pc \in {"pk_open", "pk_copy", "pk_done", "pk_raised"}

SomeIncomplete == \E k \in DOMAIN calls : ~calls[k].complete

(* C2: if scan reports complete = False for any unit, packaging fails and  *)
(* no archive file is created: the run never reaches the opening of the    *)
(* archive, and it ends by the return of line 150.                         *)
C2_IncompleteNoArchive ==
    SomeIncomplete =>
        /\ ~archive.exists
        /\ ~PkPastGate
        /\ (PkEnded => pc = "pk_aborted")

C2_Witness ==
    /\ pc = "pk_aborted"
    /\ Len(calls) = 4
    /\ calls[1].complete /\ calls[1].files # <<>>
    /\ ~calls[2].complete
    /\ calls[4].complete
    /\ ~archive.exists

(* C3: an incomplete unit does not stop the scan: the scans follow the     *)
(* matrix in stack order then dataset order, one scan per unit; when the   *)
(* decision of line 148 is taken every unit has been scanned once; and the *)
(* run aborts there if and only if some unit was incomplete.               *)
C3_FullScanThenDecide ==
    /\ \A k \in DOMAIN calls :
          /\ calls[k].cell \in MatrixCells
          /\ calls[k].experiment = stack[calls[k].cell[2]]
          /\ calls[k].sequence = dataset[calls[k].cell[3]]
    /\ \A j, k \in DOMAIN calls : j < k => CellBefore(calls[j].cell, calls[k].cell)
    /\ (pc = "pk_decide" \/ pc = "pk_aborted" \/ PkPastGate) =>
          /\ \A c \in MatrixCells : Attempted(c)
          /\ Len(calls) = Len(stack) * Len(dataset)
    /\ pc = "pk_aborted" => SomeIncomplete
    /\ PkPastGate => ~SomeIncomplete

C3_Witness ==
    /\ pc = "pk_aborted"
    /\ Len(stack) = 2 /\ Len(dataset) = 2
    /\ Len(calls) = 4
    /\ ~calls[1].complete
    /\ calls[4].complete

(* The archive entries the scans call for: one per listed file, under      *)
(* experiment/sequence/file, holding that file of that unit's bundle.      *)
ScannedEntries ==
    {[path    |-> calls[k].experiment \o <<"/">> \o calls[k].sequence
                      \o <<"/">> \o calls[k].files[n],
      content |-> BundleRead(WorkspaceResults(calls[k].tracker,
                                              calls[k].experiment,
                                              calls[k].sequence),
                             calls[k].files[n])] :
        <<k, n>> \in {kn \in (DOMAIN calls) \X (1..MaxFiles) :
                          kn[2] <= Len(calls[kn[1]].files)}}

RECURSIVE CountFiles(_)
CountFiles(cs) ==
    IF cs = <<>> THEN 0 ELSE Len(cs[1].files) + CountFiles(Tail(cs))

(* C10: a run whose scan found every unit complete ends with success and   *)
(* an archive that holds one entry per file listed by scan, each under     *)
(* experiment-identity/sequence-name/file-identifier of its unit, with the *)
(* content read for that file from that unit's bundle.                     *)
C10_ArchiveHoldsScannedFiles ==
    (PkEnded /\ PkPastGate) =>
        /\ pc = "pk_done"
        /\ Len(archive.entries) = CountFiles(calls)
        /\ {archive.entries[k] : k \in DOMAIN archive.entries} = ScannedEntries

---------------------------------------------------------------------------
(* extract_measures_table, src/vot/analysis/document.py 13-38.             *)
(*                                                                         *)
(* The argument is the ordered mapping experiment -> analysis -> (tracker  *)
(* -> values): a sequence of [experiment, analyses], analyses a sequence   *)
(* of [analysis, aresults], aresults a sequence of [tracker, values].  An  *)
(* object carries its Python type in the field type.                       *)

None == [type |-> "NoneType"]

Measure == [type |-> "Measure", abbreviation |-> "m"]

Curve == [type |-> "Curve", abbreviation |-> "c"]

Tracker(label) == [type |-> "Tracker", label |-> label]

(* analysis.describe(): the descriptions of the output positions, or None. *)
describe(analysis) == analysis.descriptions

(* "for a, b in xs" takes x apart: x must be an iterable of two items.      *)
(* None, a Measure, a Curve and a Tracker are not iterable.                *)
Unpack2(x) ==
    IF x.type # "tuple" THEN Raised("TypeError")
    ELSE IF Len(x.val) # 2 THEN Raised("ValueError")
    ELSE Returned(x.val)

(* isinstance(description, Measure) *)
IsMeasure(description) == description.type = "Measure"

(* 21-27: for i, description in descriptions: ... header columns. *)
RECURSIVE HeaderLoop(_, _, _, _, _)
HeaderLoop(st, experiment, analysis, descriptions, k) ==
    IF k > Len(descriptions) THEN st
    ELSE LET item == Unpack2(descriptions[k])
         IN  IF item.raised # "no" THEN [st EXCEPT !.raised = item.raised]
             ELSE LET description == item.value[2]
                  IN  IF description.type = "NoneType" \/ ~IsMeasure(description)
                      THEN HeaderLoop(st, experiment, analysis, descriptions, k + 1)
                      ELSE HeaderLoop(
                               [st EXCEPT !.header =
                                   <<Append(@[1], experiment),
                                     Append(@[2], analysis),
                                     Append(@[3], description)>>],
                               experiment, analysis, descriptions, k + 1)

(* aresults[tracker]: KeyError when tracker is no key. *)
GetItem(aresults, tracker) ==
    IF \E n \in DOMAIN aresults : aresults[n].tracker = tracker
    THEN Returned(aresults[CHOOSE n \in DOMAIN aresults :
                               aresults[n].tracker = tracker].values)
    ELSE Raised("KeyError")

(* 32-36: for i, description in enumerate(descriptions): the values of the *)
(* Measure positions, taken at the position itself.                        *)
RECURSIVE RowLoop(_, _, _, _)
RowLoop(row, values, descriptions, k) ==
    IF k > Len(descriptions) THEN row
    ELSE IF descriptions[k].type = "NoneType" \/ ~IsMeasure(descriptions[k])
         THEN RowLoop(row, values, descriptions, k + 1)
         ELSE RowLoop(Append(row, values[k]), values, descriptions, k + 1)

(* 29-36: for tracker, tresult in aresults: iterating the mapping gives    *)
(* its keys, and each key is taken apart into (tracker, tresult).          *)
RECURSIVE DataLoop(_, _, _, _)
DataLoop(st, aresults, descriptions, n) ==
    IF n > Len(aresults) THEN st
    ELSE LET item == Unpack2(aresults[n].tracker)
         IN  IF item.raised # "no" THEN [st EXCEPT !.raised = item.raised]
             ELSE LET tracker == item.value[1]
                      got     == GetItem(aresults, tracker)
                      old     == IF tracker \in DOMAIN st.data
                                 THEN st.data[tracker] ELSE <<>>
                  IN  IF \E k \in DOMAIN descriptions : IsMeasure(descriptions[k])
                         /\ got.raised # "no"
                      THEN [st EXCEPT !.raised = got.raised]
                      ELSE DataLoop(
                               [st EXCEPT !.data =
                                   [t \in DOMAIN st.data \cup {tracker} |->
                                       IF t = tracker
                                       THEN RowLoop(old,
                                                IF got.raised = "no"
                                                THEN got.value ELSE <<>>,
                                                descriptions, 1)
                                       ELSE st.data[t]]],
                               aresults, descriptions, n + 1)

(* 18-36: for analysis, aresults in eresults.items(). *)
RECURSIVE AnalysisLoop(_, _, _, _)
AnalysisLoop(st, experiment, analyses, a) ==
    IF a > Len(analyses) \/ st.raised # "no" THEN st
    ELSE LET analysis     == analyses[a].analysis
             descriptions == describe(analysis)
             st1 == HeaderLoop(st, experiment, analysis, descriptions, 1)
             st2 == IF st1.raised # "no" THEN st1
                    ELSE DataLoop(st1, analyses[a].aresults, descriptions, 1)
         IN  AnalysisLoop(st2, experiment, analyses, a + 1)

(* 17: for experiment, eresults in results.items(). *)
RECURSIVE ExperimentLoop(_, _, _)
ExperimentLoop(st, res, e) ==
    IF e > Len(res) \/ st.raised # "no" THEN st
    ELSE ExperimentLoop(
             AnalysisLoop(st, res[e].experiment, res[e].analyses, 1), res, e + 1)

(* The returned (table_header, table_data), or the exception raised. *)
extract_measures_table(res) ==
    LET st == ExperimentLoop([raised |-> "no",
                              header |-> << <<>>, <<>>, <<>> >>,
                              data   |-> <<>>], res, 1)
    IN  IF st.raised # "no" THEN Raised(st.raised)
        ELSE [raised |-> "no", header |-> st.header, data |-> st.data]

(* The trackers an analysis has results for, in order. *)
TrackerLists == {<<>>, <<"T1">>, <<"T2">>, <<"T1", "T2">>, <<"T2", "T1">>}

DescriptionLists == SeqsUpTo({None, Measure, Curve}, MaxOutputs)

(* The results of analysis "A" under experiment e: one value per output    *)
(* position for each tracker of ts.                                        *)
AnalysisEntry(e, ds, ts) ==
    [analysis |-> [type |-> "Analysis", name |-> "A", descriptions |-> ds],
     aresults |-> [n \in 1..Len(ts) |->
                      [tracker |-> Tracker(ts[n]),
                       values  |-> [k \in 1..Len(ds) |-> <<e, ts[n], k>>]]]]

ExperimentEntries(e) ==
    {[experiment |-> e, analyses |-> <<>>]} \cup
    {[experiment |-> e, analyses |-> <<AnalysisEntry(e, ds, ts)>>] :
        ds \in DescriptionLists, ts \in TrackerLists}

(* The arguments with at most rows experiments, named "1", "2", ... *)
TableInputs(rows) ==
    UNION {{r \in [1..n -> UNION {ExperimentEntries(Digits[e]) : e \in 1..n}] :
               \A e \in 1..n : r[e].experiment = Digits[e]} :
           n \in 0..rows}

TbInit ==
    /\ MainIdle
    /\ pc = "tb_call"
    /\ results \in TableInputs(MaxTableRows)
    /\ table = NoValue
    /\ objects = <<>> /\ repeats = NoValue
    /\ request = <<>> /\ stack = <<>> /\ dataset = <<>> /\ trackers = <<>>
    /\ t_i = 0 /\ e_i = 0 /\ s_i = 0 /\ handle = NoValue
    /\ calls = <<>> /\ outcomes = <<>> /\ all_files = <<>>
    /\ can_finish = TRUE /\ f_i = 0 /\ archive = NoArchive

TbCall ==
    /\ pc = "tb_call"
    /\ table' = extract_measures_table(results)
    /\ pc' = "tb_returned"
    /\ UNCHANGED <<mainVars, repo_ops>>
    /\ UNCHANGED <<request, stack, dataset, trackers, t_i, e_i, s_i, handle,
                   calls, outcomes, all_files, can_finish, f_i, archive,
                   objects, repeats, results>>

TbNext == TbCall

SpecTable == TbInit /\ [][TbNext]_vars

(* The Measure-tagged output positions of the argument, in order: one per *)
(* column the table is to have.                                            *)
RECURSIVE MeasurePositions(_, _, _, _)
MeasurePositions(res, e, a, k) ==
    IF e > Len(res) THEN <<>>
    ELSE IF a > Len(res[e].analyses) THEN MeasurePositions(res, e + 1, 1, 1)
    ELSE IF k > Len(describe(res[e].analyses[a].analysis))
         THEN MeasurePositions(res, e, a + 1, 1)
    ELSE IF describe(res[e].analyses[a].analysis)[k].type = "Measure"
         THEN <<[e |-> e, a |-> a, k |-> k]>> \o MeasurePositions(res, e, a, k + 1)
         ELSE MeasurePositions(res, e, a, k + 1)

Columns == MeasurePositions(results, 1, 1, 1)

(* C4: for any argument, extract_measures_table returns a table whose      *)
(* three header levels have equal length, that length being the number of  *)
(* Measure-tagged output positions over all (experiment, analysis) pairs,  *)
(* and every tracker row has exactly that many values.                     *)
C4_HeaderAlignment ==
    pc = "tb_returned" =>
        /\ table.raised = "no"
        /\ Len(table.header[1]) = Len(Columns)
        /\ Len(table.header[2]) = Len(Columns)
        /\ Len(table.header[3]) = Len(Columns)
        /\ \A t \in DOMAIN table.data : Len(table.data[t]) = Len(Columns)

(* C5: in the returned table, column c is headed by the experiment, the    *)
(* analysis and the description of the c-th Measure position, and the      *)
(* value at index c of the row of a tracker that has results for that      *)
(* analysis is its output at the original position of that description.    *)
C5_ValuesByPosition ==
    pc = "tb_returned" =>
        /\ table.raised = "no"
        /\ Len(table.header[3]) = Len(Columns)
        /\ \A c \in DOMAIN Columns :
              LET entry == results[Columns[c].e].analyses[Columns[c].a]
              IN  /\ table.header[1][c] = results[Columns[c].e].experiment
                  /\ table.header[2][c] = entry.analysis
                  /\ table.header[3][c] = describe(entry.analysis)[Columns[c].k]
                  /\ \A n \in DOMAIN entry.aresults :
                        LET t == entry.aresults[n].tracker
                        IN  /\ t \in DOMAIN table.data
                            /\ Len(table.data[t]) >= c
                            /\ table.data[t][c] = entry.aresults[n].values[Columns[c].k]

---------------------------------------------------------------------------
(* Further properties of do_pack.                                          *)

(* C11: if do_pack fails after the archive has been opened, no partial     *)
(* archive is left behind: a run that ended otherwise than by success has  *)
(* left no archive file on disk.                                           *)
C11_NoPartialArchive ==
    (PkEnded /\ pc # "pk_done") => ~archive.exists

(* The internal path a collected file is to have:                          *)
(* experiment-identity/sequence-name/file-identifier.                      *)
InternalPath(f) == f[2] \o <<"/">> \o f[3] \o <<"/">> \o f[1]

(* Identifiers pairwise distinct and free of the path separator, file      *)
(* identifiers distinct within a unit.                                     *)
WellFormedMatrix ==
    /\ NoRepeat(stack) /\ NoRepeat(dataset)
    /\ \A k \in DOMAIN stack : \A n \in DOMAIN stack[k] : stack[k][n] # "/"
    /\ \A k \in DOMAIN dataset : \A n \in DOMAIN dataset[k] : dataset[k][n] # "/"
    /\ \A k \in DOMAIN calls : NoRepeat(calls[k].files)

EntriesDistinct ==
    \A j, k \in DOMAIN archive.entries :
        j # k => archive.entries[j].path # archive.entries[k].path

PathCollision ==
    \E j, k \in DOMAIN all_files :
        j # k /\ InternalPath(all_files[j]) = InternalPath(all_files[k])

(* C14: if two collected files map to the same internal archive path,      *)
(* packaging aborts with a fatal error: the run does not end in success,   *)
(* no second entry is written under a used path and no archive survives.   *)
C14_CollisionIsFatal ==
    (PathCollision /\ PkEnded /\ PkPastGate) =>
        /\ pc = "pk_raised"
        /\ EntriesDistinct
        /\ ~archive.exists

(* C18: do_pack never changes the results repository: the only operations  *)
(* it performs on result bundles are scan and read, each on a bundle of    *)
(* the packed tracker, and it never calls execute.                         *)
C18_PackOnlyReads ==
    \A k \in DOMAIN repo_ops :
        /\ repo_ops[k].op \in {"scan", "read"}
        /\ repo_ops[k].bundle.tracker = request[1]

C18_Witness ==
    /\ pc = "pk_raised"
    /\ Len(repo_ops) = 4
    /\ archive.exists

---------------------------------------------------------------------------
(* do_test, src/vot/__main__.py 28-54.                                     *)

(* 32-44: "if not config.tracker in trackers" returns; else the sequence   *)
(* and the runtime are made.                                               *)
TsLookup ==
    /\ pc = "ts_lookup"
    /\ pc' = IF request[1] \in Registry THEN "ts_initialize" ELSE "ts_notfound"
    /\ UNCHANGED <<request, stack, dataset, trackers, t_i, e_i, s_i, handle,
                   calls, outcomes, all_files, can_finish, f_i, archive,
                   objects, repeats, results, table, mainVars, repo_ops>>

(* 48: runtime.initialize(sequence.frame(0), sequence.groundtruth(0)). *)
TsInitialize ==
    /\ pc = "ts_initialize"
    /\ runtime_calls' = Append(runtime_calls,
                               [op |-> "initialize", frame |-> 0, groundtruth |-> 0])
    /\ frame_i' = 0
    /\ pc' = "ts_update"
    /\ UNCHANGED <<request, stack, dataset, trackers, t_i, e_i, s_i, handle,
                   calls, outcomes, all_files, can_finish, f_i, archive,
                   objects, repeats, results, table, action, handler, length,
                   ws, document, repo_ops>>

(* 50-54: for i in range(1, sequence.length-1): runtime.update(frame(i));  *)
(* "Test concluded" when the range is exhausted.                           *)
TsUpdate ==
    /\ pc = "ts_update"
    /\ IF frame_i + 1 < length - 1
       THEN /\ frame_i' = frame_i + 1
            /\ runtime_calls' = Append(runtime_calls,
                                       [op |-> "update", frame |-> frame_i + 1,
                                        groundtruth |-> 0])
            /\ pc' = "ts_update"
       ELSE /\ UNCHANGED <<frame_i, runtime_calls>>
            /\ pc' = "ts_done"
    /\ UNCHANGED <<request, stack, dataset, trackers, t_i, e_i, s_i, handle,
                   calls, outcomes, all_files, can_finish, f_i, archive,
                   objects, repeats, results, table, action, handler, length,
                   ws, document, repo_ops>>

TsNext == TsLookup \/ TsInitialize \/ TsUpdate

---------------------------------------------------------------------------
(* do_workspace, src/vot/__main__.py 56-78.                                *)

(* resolve_stack(config.stack): found or not, with a dataset or without. *)
WorkspaceInputs ==
    {[NoWorkspace EXCEPT !.resolved = r, !.has_dataset = d] :
        <<r, d>> \in {<<FALSE, FALSE>>, <<TRUE, FALSE>>, <<TRUE, TRUE>>}}

(* 60-64: stack = resolve_stack(...); "if not stack" returns. *)
WsResolve ==
    /\ pc = "ws_resolve"
    /\ pc' = IF ~ws.resolved THEN "ws_notfound" ELSE "ws_initialize"
    /\ UNCHANGED <<request, stack, dataset, trackers, t_i, e_i, s_i, handle,
                   calls, outcomes, all_files, can_finish, f_i, archive,
                   objects, repeats, results, table, mainVars, repo_ops>>

(* 66-72: initialize_workspace(config.workspace, default_config). *)
WsInitialize ==
    /\ pc = "ws_initialize"
    /\ ws' = [ws EXCEPT !.initialized = TRUE]
    /\ pc' = IF ws.has_dataset THEN "ws_download" ELSE "ws_done"
    /\ UNCHANGED <<request, stack, dataset, trackers, t_i, e_i, s_i, handle,
                   calls, outcomes, all_files, can_finish, f_i, archive,
                   objects, repeats, results, table, action, handler, length,
                   frame_i, runtime_calls, document, repo_ops>>

(* 72-78: hasattr(stack, "dataset"): download_vot_dataset(...). *)
WsDownload ==
    /\ pc = "ws_download"
    /\ ws' = [ws EXCEPT !.downloaded = TRUE]
    /\ pc' = "ws_done"
    /\ UNCHANGED <<request, stack, dataset, trackers, t_i, e_i, s_i, handle,
                   calls, outcomes, all_files, can_finish, f_i, archive,
                   objects, repeats, results, table, action, handler, length,
                   frame_i, runtime_calls, document, repo_ops>>

WsNext == WsResolve \/ WsInitialize \/ WsDownload

---------------------------------------------------------------------------
(* main, src/vot/__main__.py 164-220.                                      *)

(* 176-194: the subcommands registered with add_parser. *)
Subcommands == {"test", "workspace", "evaluate", "analysis", "pack"}

(* 198: args.action after parse_args: a registered subcommand, or None     *)
(* when the command line names none.                                       *)
ParsedActions == Subcommands \cup {"None"}

(* 203-214: the if/elif chain on args.action. *)
Dispatch(a) ==
    CASE a = "test"      -> "do_test"
      [] a = "workspace" -> "do_workspace"
      [] a = "evaluate"  -> "do_evaluate"
      [] a = "analyze"   -> "do_analysis"
      [] a = "pack"      -> "do_pack"
      [] OTHER           -> "print_help"

(* Where the called function starts; do_analysis (109-110) is "pass" and   *)
(* print_help only prints, so both have returned at once.                  *)
EntryPc(h) ==
    CASE h = "do_test"      -> "ts_lookup"
      [] h = "do_workspace" -> "ws_resolve"
      [] h = "do_evaluate"  -> "ev_lookup"
      [] h = "do_pack"      -> "pk_lookup"
      [] h = "do_analysis"  -> "an_done"
      [] OTHER              -> "help_done"

MainInit ==
    /\ pc = "main"
    /\ handler = NoValue
    /\ action \in ParsedActions
    /\ IF action = "evaluate"
       THEN request \in SeqsUpTo(RequestIds, MaxRequest) \ {<<>>}
       ELSE IF action \in {"pack", "test"}
            THEN request \in {<<id>> : id \in RequestIds}
            ELSE request = <<>>
    /\ IF action \in {"evaluate", "pack"}
       THEN /\ \/ stack \in Stacks /\ dataset \in Datasets
               \/ action = "pack" /\ stack = MalformedStack
                                  /\ dataset = MalformedDataset
            /\ action = "pack" => Len(stack) * Len(dataset) <= MaxPackUnits
       ELSE stack = <<>> /\ dataset = <<>>
    /\ IF action = "test" THEN length \in 1..MaxFrames ELSE length = 0
    /\ IF action = "workspace" THEN ws \in WorkspaceInputs ELSE ws = NoWorkspace
    /\ trackers = <<>>
    /\ t_i = 0 /\ e_i = 0 /\ s_i = 0 /\ handle = NoValue
    /\ calls = <<>> /\ outcomes = <<>>
    /\ all_files = <<>> /\ can_finish = TRUE /\ f_i = 0 /\ archive = NoArchive
    /\ frame_i = 0 /\ runtime_calls = <<>> /\ repo_ops = <<>>
    /\ document = NoValue
    /\ PureIdle

(* 203-214: main calls the function the chain selects. *)
MainDispatch ==
    /\ pc = "main"
    /\ handler' = Dispatch(action)
    /\ pc' = EntryPc(Dispatch(action))
    /\ UNCHANGED <<request, stack, dataset, trackers, t_i, e_i, s_i, handle,
                   calls, outcomes, all_files, can_finish, f_i, archive,
                   objects, repeats, results, table, action, length, frame_i,
                   runtime_calls, ws, document, repo_ops>>

MainNext ==
    \/ MainDispatch
    \/ TsNext
    \/ WsNext
    \/ EvNext
    \/ PkNext

SpecMain == MainInit /\ [][MainNext]_vars

---------------------------------------------------------------------------
(* Properties of the commands run from main.                               *)

(* C12: a failed top-level lookup aborts the command before any effect.    *)
(* When a requested tracker is missing from the registry, do_evaluate      *)
(* executes no unit and do_pack scans no unit and creates no archive;      *)
(* when the stack is not resolved, do_workspace neither initialises the    *)
(* workspace nor downloads a dataset.                                      *)
C12_FailedLookupNoEffect ==
    /\ (handler = "do_evaluate" /\ \E k \in DOMAIN request : request[k] \notin Registry)
          => /\ calls = <<>> /\ repo_ops = <<>>
             /\ pc \in {"ev_lookup", "ev_notfound"}
    /\ (handler = "do_pack" /\ request[1] \notin Registry)
          => /\ calls = <<>> /\ repo_ops = <<>> /\ ~archive.exists
             /\ pc \in {"pk_lookup", "pk_notfound"}
    /\ (handler = "do_workspace" /\ ~ws.resolved)
          => /\ ~ws.initialized /\ ~ws.downloaded
             /\ pc \in {"ws_resolve", "ws_notfound"}

(* do_evaluate has returned on a request whose first tracker is registered *)
(* and whose second is not.                                                *)
C12_Witness ==
    /\ handler = "do_evaluate" /\ pc = "ev_notfound"
    /\ Len(request) = 2
    /\ request[1] \in Registry /\ request[2] \notin Registry

(* The calls the runtime protocol asks for on a sequence of n frames. *)
ExpectedProtocol(n) ==
    <<[op |-> "initialize", frame |-> 0, groundtruth |-> 0]>> \o
    [k \in 1..(n - 1) |-> [op |-> "update", frame |-> k, groundtruth |-> 0]]

(* C19: do_test calls initialize exactly once, on frame 0 with its ground  *)
(* truth, before any update; then update exactly once for every frame      *)
(* 1 .. length-1 in increasing order; success is reported only after the   *)
(* last frame was updated.                                                 *)
C19_RuntimeProtocol ==
    handler = "do_test" =>
        /\ runtime_calls = SubSeq(ExpectedProtocol(length), 1, Len(runtime_calls))
        /\ pc = "ts_done" => runtime_calls = ExpectedProtocol(length)

(* The handler the subcommand is registered for. *)
OwnHandler(a) ==
    CASE a = "test"      -> "do_test"
      [] a = "workspace" -> "do_workspace"
      [] a = "evaluate"  -> "do_evaluate"
      [] a = "analysis"  -> "do_analysis"
      [] a = "pack"      -> "do_pack"
      [] OTHER           -> "print_help"

(* C20: every registered subcommand is dispatched to its own handler, and  *)
(* the help fallback is taken only when no registered subcommand was given.*)
C20_OwnHandler ==
    handler # NoValue =>
        /\ action \in Subcommands => handler = OwnHandler(action)
        /\ handler = "print_help" => action \notin Subcommands

---------------------------------------------------------------------------
(* The table of extract_measures_table with merge_repeats on its header.   *)

(* The argument holds experiments "1" and "2", each with the one analysis  *)
(* A, and A has a single output, a Measure.                                *)
TwoExperimentsSameAnalysis ==
    /\ Len(results) = 2
    /\ \A e \in 1..2 :
          /\ Len(results[e].analyses) = 1
          /\ describe(results[e].analyses[1].analysis) = <<Measure>>

(* C15: for experiments [E1, E2] each holding the same single-Measure      *)
(* analysis A, extract_measures_table yields header level 1 = [E1, E2] and *)
(* level 2 = [A, A]; merge_repeats of level 1 yields [(E1,1),(E2,1)] and   *)
(* merge_repeats of level 2 yields [(A,1),(A,1)].                          *)
C15_EndToEnd ==
    (pc = "tb_returned" /\ TwoExperimentsSameAnalysis) =>
        LET A == results[1].analyses[1].analysis
        IN  /\ table.raised = "no"
            /\ table.header[1] = <<"1", "2">>
            /\ table.header[2] = <<A, A>>
            /\ merge_repeats(table.header[1]) = << <<"1", 1>>, <<"2", 1>> >>
            /\ merge_repeats(table.header[2]) = << <<A, 1>>, <<A, 1>> >>

---------------------------------------------------------------------------
(* generate_json_document and generate_latex_document,                     *)
(* src/vot/analysis/document.py 85-128.                                    *)

Experiment(identifier) == [type |-> "Experiment", identifier |-> identifier]

PyDict(items) == [type |-> "dict", val |-> items]

PyList(items) == [type |-> "list", val |-> items]

PyInt(n) == [type |-> "int", val |-> n]

PyFloat(v) == [type |-> "float", val |-> v]

(* The argument of extract_measures_table as the Python mapping it stands  *)
(* for: Experiment -> (Analysis -> (Tracker -> list of values)).           *)
AsMapping(res) ==
    PyDict([e \in DOMAIN res |->
        [key   |-> Experiment(res[e].experiment),
         value |-> PyDict([a \in DOMAIN res[e].analyses |->
            [key   |-> res[e].analyses[a].analysis,
             value |-> PyDict([n \in DOMAIN res[e].analyses[a].aresults |->
                [key   |-> res[e].analyses[a].aresults[n].tracker,
                 value |-> PyList([k \in DOMAIN res[e].analyses[a].aresults[n].values |->
                              PyFloat(res[e].analyses[a].aresults[n].values[k])])]])]])]])

(* 88-95: StringifyEncoder.default; JSONEncoder.default raises TypeError. *)
default(obj) ==
    IF obj.type = "Analysis" THEN Returned(PyStr(obj.name))
    ELSE IF obj.type = "Tracker" THEN Returned(PyStr(obj.label))
    ELSE IF obj.type = "Experiment" THEN Returned(PyStr(obj.identifier))
    ELSE Raised("TypeError")

(* json.encoder: a key of a dict must be str, int, float, bool or None;    *)
(* default() is not asked about keys.                                      *)
JsonKey(key) ==
    IF key.type \in {"str", "int", "float", "bool", "NoneType"}
    THEN Returned(key.val)
    ELSE Raised("TypeError")

(* The exception of the first item that raised, if any. *)
FirstRaised(encoded) ==
    IF \E n \in DOMAIN encoded : encoded[n].raised # "no"
    THEN Raised(encoded[CHOOSE n \in DOMAIN encoded :
                            /\ encoded[n].raised # "no"
                            /\ \A j \in 1..(n - 1) : encoded[j].raised = "no"].raised)
    ELSE Returned(NoValue)

(* 98: json.dump(results, fp, indent=2, cls=StringifyEncoder): the JSON    *)
(* value written, or the exception raised.                                 *)
RECURSIVE json_dump(_)
json_dump(o) ==
    IF o.type = "dict"
    THEN LET items == [n \in DOMAIN o.val |->
                          LET k == JsonKey(o.val[n].key)
                          IN  IF k.raised # "no" THEN k
                              ELSE LET v == json_dump(o.val[n].value)
                                   IN  IF v.raised # "no" THEN v
                                       ELSE Returned([key |-> k.value,
                                                      value |-> v.value])]
         IN  IF FirstRaised(items).raised # "no" THEN FirstRaised(items)
             ELSE Returned([json |-> "object",
                            members |-> [n \in DOMAIN items |-> items[n].value]])
    ELSE IF o.type \in {"list", "tuple"}
    THEN LET items == [n \in DOMAIN o.val |-> json_dump(o.val[n])]
         IN  IF FirstRaised(items).raised # "no" THEN FirstRaised(items)
             ELSE Returned([json |-> "array",
                            members |-> [n \in DOMAIN items |-> items[n].value]])
    ELSE IF o.type \in {"str", "int", "float", "bool", "NoneType"}
    THEN Returned([json |-> o.type, members |-> <<o.val>>])
    ELSE LET d == default(o)
         IN  IF d.raised # "no" THEN d ELSE json_dump(d.value)

(* 97-98: the file is opened for writing, then the dump runs. *)
generate_json_document(o) == [opened |-> TRUE, dump |-> json_dump(o)]

(* list + int raises TypeError; list + list concatenates. *)
Add(a, b) ==
    IF a.type = "list" /\ b.type = "list" THEN Returned(PyList(a.val \o b.val))
    ELSE IF a.type = "int" /\ b.type = "int" THEN Returned(PyInt(a.val + b.val))
    ELSE Raised("TypeError")

(* One cell of a table row; MultiColumn(size, data=...) spans size columns. *)
MultiColumn(size, data) == [span |-> size, data |-> data]

(* 110, 112: [" "] + [MultiColumn(c[1], data=c[0].identifier)              *)
(*            for c in merge_repeats(level)]                               *)
SpanRow(level) ==
    <<MultiColumn(1, " ")>> \o
    [n \in DOMAIN merge_repeats(level) |->
        MultiColumn(merge_repeats(level)[n][2], merge_repeats(level)[n][1])]

(* 108-120: the rows added to the LongTable. *)
LongTable(width, header, data) ==
    [columns |-> width,
     rows    |-> <<SpanRow(header[1]),
                   SpanRow(header[2]),
                   <<MultiColumn(1, " ")>> \o
                       [c \in DOMAIN header[3] |->
                           MultiColumn(1, header[3][c].abbreviation)]>>,
     body    |-> [t \in DOMAIN data |->
                     <<MultiColumn(1, t.label)>> \o
                         [c \in DOMAIN data[t] |-> MultiColumn(1, data[t][c])]]]

(* 101-128: the table handed to generate_pdf, or the exception raised.     *)
(* Line 108 evaluates table_header[2] + 1 before taking len().             *)
generate_latex_document(res) ==
    LET t == extract_measures_table(res)
    IN  IF t.raised # "no" THEN Raised(t.raised)
        ELSE LET sum == Add(PyList(t.header[3]), PyInt(1))
             IN  IF sum.raised # "no" THEN Raised(sum.raised)
                 ELSE Returned(LongTable(Len(sum.value.val), t.header, t.data))

(* Lists of objects: arguments of the export with objects as values. The  *)
(* argument of a run is a mapping (results) or such a list (objects).     *)
ObjectLists ==
    SeqsUpTo({Tracker("T1"), Experiment("1"),
              [type |-> "Analysis", name |-> "A", descriptions |-> <<Measure>>],
              Measure}, MaxObjects)

DocInit ==
    /\ MainIdle
    /\ pc = "doc_call"
    /\ \/ results \in TableInputs(MaxTableRows) /\ objects = <<>>
       \/ results = <<>> /\ objects \in ObjectLists \ {<<>>}
    /\ table = NoValue
    /\ repeats = NoValue
    /\ request = <<>> /\ stack = <<>> /\ dataset = <<>> /\ trackers = <<>>
    /\ t_i = 0 /\ e_i = 0 /\ s_i = 0 /\ handle = NoValue
    /\ calls = <<>> /\ outcomes = <<>> /\ all_files = <<>>
    /\ can_finish = TRUE /\ f_i = 0 /\ archive = NoArchive

GenerateJson ==
    /\ pc = "doc_call"
    /\ objects = <<>>
    /\ document' = generate_json_document(AsMapping(results))
    /\ pc' = "json_returned"
    /\ UNCHANGED <<request, stack, dataset, trackers, t_i, e_i, s_i, handle,
                   calls, outcomes, all_files, can_finish, f_i, archive,
                   objects, repeats, results, table, action, handler, length,
                   frame_i, runtime_calls, ws, repo_ops>>

GenerateJsonList ==
    /\ pc = "doc_call"
    /\ objects # <<>>
    /\ document' = generate_json_document(PyList(objects))
    /\ pc' = "json_list_returned"
    /\ UNCHANGED <<request, stack, dataset, trackers, t_i, e_i, s_i, handle,
                   calls, outcomes, all_files, can_finish, f_i, archive,
                   objects, repeats, results, table, action, handler, length,
                   frame_i, runtime_calls, ws, repo_ops>>

GenerateLatex ==
    /\ pc = "doc_call"
    /\ objects = <<>>
    /\ document' = generate_latex_document(results)
    /\ pc' = "latex_returned"
    /\ UNCHANGED <<request, stack, dataset, trackers, t_i, e_i, s_i, handle,
                   calls, outcomes, all_files, can_finish, f_i, archive,
                   objects, repeats, results, table, action, handler, length,
                   frame_i, runtime_calls, ws, repo_ops>>

DocNext == GenerateJson \/ GenerateJsonList \/ GenerateLatex

SpecDocument == DocInit /\ [][DocNext]_vars

RECURSIVE SpanSum(_)
SpanSum(row) == IF row = <<>> THEN 0 ELSE Head(row).span + SpanSum(Tail(row))

(* C16: in the table built by generate_latex_document the three header     *)
(* rows cover the same width: the spans of the level-1 row and of the      *)
(* level-2 row each sum to the number of level-3 columns, and each body    *)
(* row is one tracker's label followed by exactly one value per column in  *)
(* column order.                                                           *)
C16_LatexTable ==
    pc = "latex_returned" =>
        /\ document.raised = "no"
        /\ Len(document.value.rows) = 3
        /\ SpanSum(document.value.rows[1]) = Len(document.value.rows[3])
        /\ SpanSum(document.value.rows[2]) = Len(document.value.rows[3])
        /\ Len(document.value.rows[3]) = Len(Columns) + 1
        /\ \A t \in DOMAIN document.value.body :
              /\ document.value.body[t][1].data = t.label
              /\ Len(document.value.body[t]) = Len(Columns) + 1

(* The export the mapping is to have: every object replaced by its         *)
(* identifier, name or label.                                              *)
JsonObject(members) == [json |-> "object", members |-> members]

StringifiedValues(values) ==
    [json |-> "array",
     members |-> [k \in DOMAIN values |->
                     [json |-> "float", members |-> <<values[k]>>]]]

StringifiedTrackers(aresults) ==
    JsonObject([n \in DOMAIN aresults |->
                   [key   |-> aresults[n].tracker.label,
                    value |-> StringifiedValues(aresults[n].values)]])

StringifiedAnalyses(analyses) ==
    JsonObject([a \in DOMAIN analyses |->
                   [key   |-> analyses[a].analysis.name,
                    value |-> StringifiedTrackers(analyses[a].aresults)]])

Stringified(res) ==
    JsonObject([e \in DOMAIN res |->
                   [key   |-> res[e].experiment,
                    value |-> StringifiedAnalyses(res[e].analyses)]])

(* C17: generate_json_document of a nested mapping experiment -> analysis  *)
(* -> tracker -> values succeeds and emits, wherever a Tracker, an         *)
(* Experiment or an Analysis occurs (as a key or as a value), its label,   *)
(* identifier or name and never its internal structure; reading the output *)
(* back gives the same flat values.                                        *)
C17_JsonExport ==
    pc = "json_returned" =>
        /\ document.dump.raised = "no"
        /\ document.dump.value = Stringified(results)

===========================================================================
